---------------------------- MODULE Spec2Model ----------------------------
(* A model of the changelog feature: the git-log parser, the commit       *)
(* classifier, the filter engine, the paginator and the Changelog         *)
(* component that ties them together.  JavaScript strings are TLA+        *)
(* strings; the String.prototype methods the code calls are operators    *)
(* computed character by character.                                       *)
EXTENDS Integers, Sequences, FiniteSets, TLC

VARIABLES
    message,        \* SpecClassify: the argument of detectCommitType
    msgType,        \* SpecClassify: what detectCommitType returned
    msgTypeUpper,   \* SpecClassify: what it returned for the upper-cased message
    pcClassify,     \* SpecClassify: "start" | "done"
    logLines,       \* SpecParse: the lines the log text is made of, field by field
    logOutput,      \* SpecParse: the argument of parseGitLog
    parsed,         \* SpecParse: what parseGitLog returned
    pcParse,        \* SpecParse: "start" | "done"
    tz,             \* the time zone of the process (environment)
    records,        \* SpecFilter: the commits argument of filterCommits
    criteria,       \* SpecFilter: the filters argument of filterCommits
    result,         \* SpecFilter: filterCommits(records, criteria)
    result2,        \* SpecFilter: filterCommits(result, criteria)
    filterOutcome,  \* SpecFilter: "none" | "returned": how the last call ended
    pcFilter,       \* SpecFilter: "start" | "once" | "twice"
    history,        \* the git history: the lines git log prints, newest first
    commits,        \* Changelog state: the records of the last fetch
    filteredCommits, \* Changelog state: the records shown
    loading,        \* Changelog state
    error,          \* Changelog state: null or the error message
    currentPage,    \* Changelog state
    totalCommits,   \* Changelog state
    filters,        \* Changelog state: the filter criteria
    fetches,        \* the calls of Changelog's fetchGitHistory in flight
    requestedPage,  \* the page argument of the last call of fetchGitHistory
    cfSearchQuery,  \* ChangelogFilter state: searchQuery
    cfType,         \* ChangelogFilter state: type
    showDateFilter, \* ChangelogFilter state
    cfDateRange,    \* ChangelogFilter state: dateRange
    utilCall,       \* SpecFetch: the call of utils.fetchGitHistory and its locals
    utilOutcome,    \* SpecFetch: what the call returned or threw, Null before
    pgCurrentPage,  \* SpecPagination: the currentPage prop
    pgTotalPages,   \* SpecPagination: the totalPages prop
    pgPageRange,    \* SpecPagination: pageRange of the last render
    pgOutput,       \* SpecPagination: what the last render returned
    pgClick,        \* SpecPagination: the control pressed last
    pgEmitted       \* SpecPagination: the calls of onPageChange that press made

classifyVars == <<message, msgType, msgTypeUpper, pcClassify>>
parseVars == <<logLines, logOutput, parsed, pcParse>>
filterVars == <<records, criteria, result, result2, filterOutcome, pcFilter>>

changelogVars ==
    <<commits, filteredCommits, loading, error, currentPage, totalCommits,
      filters, fetches, requestedPage>>
changelogFilterVars == <<cfSearchQuery, cfType, showDateFilter, cfDateRange>>
componentVars == <<history, changelogVars, changelogFilterVars>>

utilVars == <<utilCall, utilOutcome>>

paginationVars ==
    <<pgCurrentPage, pgTotalPages, pgPageRange, pgOutput, pgClick, pgEmitted>>

vars ==
    <<classifyVars, parseVars, tz, filterVars, componentVars, utilVars,
      paginationVars>>

--------------------------------------------------------------------------
(* Bounds                                                                 *)

MaxFrags == 3
MaxLines == 3
MaxRecords == 2
MaxHistory == 25

--------------------------------------------------------------------------
(* String.prototype                                                       *)

UpperCaseLetters == "ABCDEFGHIJKLMNOPQRSTUVWXYZ"
LowerCaseLetters == "abcdefghijklmnopqrstuvwxyz"

charAt(s, i) == SubSeq(s, i, i)

\* The position (1-based) of the first occurrence of the one-character
\* string c in s at or after position i, 0 if there is none.
RECURSIVE indexFrom(_, _, _)
indexFrom(s, c, i) ==
    IF i > Len(s) THEN 0
    ELSE IF charAt(s, i) = c THEN i
    ELSE indexFrom(s, c, i + 1)

indexOfChar(s, c) == indexFrom(s, c, 1)

\* The letters String.prototype.toLowerCase changes, with their lower case.
LowerCaseOf ==
    [c \in { charAt(UpperCaseLetters, i) : i \in 1..Len(UpperCaseLetters) } |->
        charAt(LowerCaseLetters, indexOfChar(UpperCaseLetters, c))]

UpperCaseOf ==
    [c \in { charAt(LowerCaseLetters, i) : i \in 1..Len(LowerCaseLetters) } |->
        charAt(UpperCaseLetters, indexOfChar(LowerCaseLetters, c))]

lowerChar(c) == IF c \in DOMAIN LowerCaseOf THEN LowerCaseOf[c] ELSE c

upperChar(c) == IF c \in DOMAIN UpperCaseOf THEN UpperCaseOf[c] ELSE c

RECURSIVE toLowerCase(_)
toLowerCase(s) ==
    IF s = "" THEN "" ELSE lowerChar(charAt(s, 1)) \o toLowerCase(Tail(s))

RECURSIVE toUpperCase(_)
toUpperCase(s) ==
    IF s = "" THEN "" ELSE upperChar(charAt(s, 1)) \o toUpperCase(Tail(s))

startsWith(s, p) == Len(p) <= Len(s) /\ SubSeq(s, 1, Len(p)) = p

includes(s, p) ==
    \E i \in 0..(Len(s) - Len(p)) : SubSeq(s, i + 1, i + Len(p)) = p

WhiteSpace == {" ", "\t", "\n", "\r", "\f"}

RECURSIVE trimStart(_)
trimStart(s) ==
    IF s # "" /\ charAt(s, 1) \in WhiteSpace THEN trimStart(Tail(s)) ELSE s

RECURSIVE trimEnd(_)
trimEnd(s) ==
    IF s # "" /\ charAt(s, Len(s)) \in WhiteSpace
    THEN trimEnd(SubSeq(s, 1, Len(s) - 1))
    ELSE s

trim(s) == trimEnd(trimStart(s))

\* s.split(sep) for a one-character separator: never the empty array.
RECURSIVE split(_, _)
split(s, sep) ==
    LET i == indexOfChar(s, sep) IN
    IF i = 0 THEN <<s>>
    ELSE <<SubSeq(s, 1, i - 1)>> \o split(SubSeq(s, i + 1, Len(s)), sep)

\* parts.join(sep)
RECURSIVE join(_, _)
join(parts, sep) ==
    IF parts = <<>> THEN ""
    ELSE IF Len(parts) = 1 THEN parts[1]
    ELSE parts[1] \o sep \o join(Tail(parts), sep)

--------------------------------------------------------------------------
(* utils.ts: the commit classifier                                        *)

CommitTypes ==
    {"feature", "fix", "docs", "chore", "refactor", "test", "style", "other"}

\* detectCommitType with the secondary keyword check placed before the
\* conventional-commit check, and the message not lower-cased.
detectCommitType_secondaryFirst(m) ==
    IF includes(m, "add") \/ includes(m, "new") \/ includes(m, "implement")
        THEN "feature"
    ELSE IF startsWith(m, "feat") \/ includes(m, ": feat") THEN "feature"
    ELSE IF startsWith(m, "fix") \/ includes(m, ": fix") THEN "fix"
    ELSE IF startsWith(m, "docs") \/ includes(m, ": docs") THEN "docs"
    ELSE IF startsWith(m, "chore") \/ includes(m, ": chore") THEN "chore"
    ELSE IF startsWith(m, "refactor") \/ includes(m, ": refactor") THEN "refactor"
    ELSE IF startsWith(m, "test") \/ includes(m, ": test") THEN "test"
    ELSE IF startsWith(m, "style") \/ includes(m, ": style") THEN "style"
    ELSE "other"

\* detectCommitType with the docs rule tried before the fix rule.
detectCommitType_docsBeforeFix(m) ==
    LET lowerMessage == toLowerCase(m) IN
    IF startsWith(lowerMessage, "feat") \/ includes(lowerMessage, ": feat")
        THEN "feature"
    ELSE IF startsWith(lowerMessage, "docs") \/ includes(lowerMessage, ": docs")
        THEN "docs"
    ELSE IF startsWith(lowerMessage, "fix") \/ includes(lowerMessage, ": fix")
        THEN "fix"
    ELSE IF startsWith(lowerMessage, "chore") \/ includes(lowerMessage, ": chore")
        THEN "chore"
    ELSE IF startsWith(lowerMessage, "refactor")
            \/ includes(lowerMessage, ": refactor")
        THEN "refactor"
    ELSE IF startsWith(lowerMessage, "test") \/ includes(lowerMessage, ": test")
        THEN "test"
    ELSE IF startsWith(lowerMessage, "style") \/ includes(lowerMessage, ": style")
        THEN "style"
    ELSE IF includes(lowerMessage, "add") \/ includes(lowerMessage, "new")
            \/ includes(lowerMessage, "implement")
        THEN "feature"
    ELSE IF includes(lowerMessage, "fix") \/ includes(lowerMessage, "bug")
            \/ includes(lowerMessage, "issue")
        THEN "fix"
    ELSE IF includes(lowerMessage, "document") \/ includes(lowerMessage, "readme")
            \/ includes(lowerMessage, "comment")
        THEN "docs"
    ELSE IF includes(lowerMessage, "clean") \/ includes(lowerMessage, "update")
            \/ includes(lowerMessage, "upgrade")
        THEN "chore"
    ELSE "other"

detectCommitType(m) ==
    LET lowerMessage == toLowerCase(m) IN
    IF startsWith(lowerMessage, "feat") \/ includes(lowerMessage, ": feat")
        THEN "feature"
    ELSE IF startsWith(lowerMessage, "fix") \/ includes(lowerMessage, ": fix")
        THEN "fix"
    ELSE IF startsWith(lowerMessage, "docs") \/ includes(lowerMessage, ": docs")
        THEN "docs"
    ELSE IF startsWith(lowerMessage, "chore") \/ includes(lowerMessage, ": chore")
        THEN "chore"
    ELSE IF startsWith(lowerMessage, "refactor")
            \/ includes(lowerMessage, ": refactor")
        THEN "refactor"
    ELSE IF startsWith(lowerMessage, "test") \/ includes(lowerMessage, ": test")
        THEN "test"
    ELSE IF startsWith(lowerMessage, "style") \/ includes(lowerMessage, ": style")
        THEN "style"
    ELSE IF includes(lowerMessage, "add") \/ includes(lowerMessage, "new")
            \/ includes(lowerMessage, "implement")
        THEN "feature"
    ELSE IF includes(lowerMessage, "fix") \/ includes(lowerMessage, "bug")
            \/ includes(lowerMessage, "issue")
        THEN "fix"
    ELSE IF includes(lowerMessage, "document") \/ includes(lowerMessage, "readme")
            \/ includes(lowerMessage, "comment")
        THEN "docs"
    ELSE IF includes(lowerMessage, "clean") \/ includes(lowerMessage, "update")
            \/ includes(lowerMessage, "upgrade")
        THEN "chore"
    ELSE "other"

--------------------------------------------------------------------------
(* utils.ts: the log parser                                               *)

\* const [hash, author, date, ...messageParts] = parts; messageParts.join('|')
messageOf(parts) == join(SubSeq(parts, 4, Len(parts)), "|")

\* The object literal { hash, author, date, message, type } after the
\* destructuring of parts: a property whose array element does not exist is
\* undefined, which the record shows by not having that field.
commitOf(parts, type) ==
    LET present == {"hash", "message", "type"}
                     \cup (IF Len(parts) >= 2 THEN {"author"} ELSE {})
                     \cup (IF Len(parts) >= 3 THEN {"date"} ELSE {})
    IN  [f \in present |->
            CASE f = "hash" -> parts[1]
              [] f = "author" -> parts[2]
              [] f = "date" -> parts[3]
              [] f = "message" -> messageOf(parts)
              [] f = "type" -> type]

\* logOutput.split('\n').filter(line => line.trim() !== '')
nonBlankLines(text) ==
    SelectSeq(split(text, "\n"), LAMBDA line : trim(line) # "")

\* parseGitLog keeping only the fourth part as the message.
parseGitLog_fourthPartOnly(text) ==
    LET lines == nonBlankLines(text) IN
    [i \in 1..Len(lines) |->
        LET parts == SubSeq(split(lines[i], "|"), 1, 4) IN
        commitOf(parts, detectCommitType(messageOf(parts)))]

parseGitLog(text) ==
    LET lines == nonBlankLines(text) IN
    [i \in 1..Len(lines) |->
        LET parts == split(lines[i], "|") IN
        commitOf(parts, detectCommitType(messageOf(parts)))]

--------------------------------------------------------------------------
(* Date                                                                   *)

\* A Date object: its time value in hours since the epoch, or NaN (an
\* Invalid Date) when valid is FALSE.
NaNDate == [valid |-> FALSE, time |-> 0]

Digits == "0123456789"

\* The value of each decimal digit.
DigitValue ==
    [c \in { charAt(Digits, i) : i \in 1..Len(Digits) } |->
        indexOfChar(Digits, c) - 1]

isDigit(c) == c \in DOMAIN DigitValue

\* The number written by the digits of s.
RECURSIVE toNumber(_)
toNumber(s) ==
    IF s = "" THEN 0
    ELSE 10 * toNumber(SubSeq(s, 1, Len(s) - 1)) + DigitValue[charAt(s, Len(s))]

isLeapYear(y) == (y % 4 = 0 /\ y % 100 # 0) \/ y % 400 = 0

daysInMonth(y, m) ==
    IF m = 2 THEN (IF isLeapYear(y) THEN 29 ELSE 28)
    ELSE IF m \in {4, 6, 9, 11} THEN 30 ELSE 31

\* Days from 1970-01-01 to the civil date y-m-d.
daysFromCivil(y, m, d) ==
    LET yy == IF m <= 2 THEN y - 1 ELSE y
        era == yy \div 400
        yoe == yy - era * 400
        mp == IF m > 2 THEN m - 3 ELSE m + 9
        doy == (153 * mp + 2) \div 5 + d - 1
        doe == yoe * 365 + yoe \div 4 - yoe \div 100 + doy
    IN  era * 146097 + doe - 719468

\* Whether s is a date-only ISO string YYYY-MM-DD naming a calendar day.
isIsoDate(s) ==
    /\ Len(s) = 10
    /\ charAt(s, 5) = "-" /\ charAt(s, 8) = "-"
    /\ \A i \in {1, 2, 3, 4, 6, 7, 9, 10} : isDigit(charAt(s, i))
    /\ LET y == toNumber(SubSeq(s, 1, 4))
           m == toNumber(SubSeq(s, 6, 7))
           d == toNumber(SubSeq(s, 9, 10))
       IN  m \in 1..12 /\ d >= 1 /\ d <= daysInMonth(y, m)

\* new Date(s): a date-only ISO string is midnight UTC of that day.  The
\* other strings the model uses ("", words without digits) are an Invalid
\* Date in every engine.
newDate(s) ==
    IF isIsoDate(s)
    THEN [valid |-> TRUE,
          time |-> 24 * daysFromCivil(toNumber(SubSeq(s, 1, 4)),
                                      toNumber(SubSeq(s, 6, 7)),
                                      toNumber(SubSeq(s, 9, 10)))]
    ELSE NaNDate

\* new Date(commit.date), where commit.date may be undefined.
newDateOf(commit) ==
    IF "date" \in DOMAIN commit THEN newDate(commit.date) ELSE NaNDate

TimeZones == {"UTC", "America/Los_Angeles"}

\* Daylight saving time of America/Los_Angeles in 2024: from 2024-03-10
\* 02:00 PST (10:00 UTC) until 2024-11-03 02:00 PDT (09:00 UTC).
dstStartUTC == 24 * daysFromCivil(2024, 3, 10) + 10
dstEndUTC == 24 * daysFromCivil(2024, 11, 3) + 9

\* LocalTZA(t, isUTC) of ECMA-262, in hours: the offset of local time from
\* UTC at the UTC time t (isUTC), or at the local wall-clock time t.
LocalTZA(zone, t, isUTC) ==
    IF zone = "UTC" THEN 0
    ELSE IF isUTC
         THEN (IF dstStartUTC <= t /\ t < dstEndUTC THEN -7 ELSE -8)
         ELSE (IF dstStartUTC - 7 <= t /\ t < dstEndUTC - 7 THEN -7 ELSE -8)

\* d.setDate(d.getDate() + 1): one calendar day later on the local wall
\* clock, the local time of day kept; NaN stays NaN.
setDateNextDay(d, zone) ==
    IF ~d.valid THEN NaNDate
    ELSE LET local == d.time + LocalTZA(zone, d.time, TRUE)
             newLocal == local + 24
         IN  [valid |-> TRUE, time |-> newLocal - LocalTZA(zone, newLocal, FALSE)]

\* a >= b and a < b on Date objects: FALSE when either is NaN.
dateGE(a, b) == a.valid /\ b.valid /\ a.time >= b.time
dateLT(a, b) == a.valid /\ b.valid /\ a.time < b.time

--------------------------------------------------------------------------
(* utils.ts: the filter engine                                            *)

\* filters.dateRange === null
Null == [null |-> TRUE]

typeMatches(commit, currentFilters) == commit.type = currentFilters.type

\* The search callback; query is filters.searchQuery.toLowerCase().
textMatches(commit, query) ==
    \/ includes(toLowerCase(commit.message), query)
    \/ includes(toLowerCase(commit.author), query)
    \/ includes(toLowerCase(commit.hash), query)

startMatches(commit, startDate) == dateGE(newDateOf(commit), newDate(startDate))

endMatches(commit, endDate, zone) ==
    dateLT(newDateOf(commit), setDateNextDay(newDate(endDate), zone))

\* filterCommits losing the first record of a non-empty result.
filterCommits_skipFirst(commitsToFilter, currentFilters, zone) ==
    LET kept == SelectSeq(commitsToFilter, LAMBDA c :
                    currentFilters.type = "all" \/ typeMatches(c, currentFilters))
    IN  IF kept = <<>> THEN kept ELSE Tail(kept)

\* filterCommits with the type filter applied for 'all' too.
filterCommits_allIsAType(commitsToFilter, currentFilters, zone) ==
    SelectSeq(commitsToFilter, LAMBDA c : typeMatches(c, currentFilters))

\* filterCommits with the date range used only when both bounds are set,
\* and a record kept when it matches either bound.
filterCommits_eitherBound(commitsToFilter, currentFilters, zone) ==
    LET r1 == IF currentFilters.type # "all"
              THEN SelectSeq(commitsToFilter, LAMBDA c : typeMatches(c, currentFilters))
              ELSE commitsToFilter
        r2 == IF trim(currentFilters.searchQuery) # ""
              THEN SelectSeq(r1, LAMBDA c :
                       textMatches(c, toLowerCase(currentFilters.searchQuery)))
              ELSE r1
    IN  IF currentFilters.dateRange # Null
            /\ currentFilters.dateRange.startDate # "" /\ currentFilters.dateRange.endDate # ""
        THEN SelectSeq(r2, LAMBDA c :
                \/ startMatches(c, currentFilters.dateRange.startDate)
                \/ endMatches(c, currentFilters.dateRange.endDate, zone))
        ELSE r2

filterCommits(commitsToFilter, currentFilters, zone) ==
    LET r1 == IF currentFilters.type # "all"
              THEN SelectSeq(commitsToFilter, LAMBDA c : typeMatches(c, currentFilters))
              ELSE commitsToFilter
        r2 == IF trim(currentFilters.searchQuery) # ""
              THEN SelectSeq(r1, LAMBDA c :
                       textMatches(c, toLowerCase(currentFilters.searchQuery)))
              ELSE r1
        r3 == IF currentFilters.dateRange # Null /\ currentFilters.dateRange.startDate # ""
              THEN SelectSeq(r2, LAMBDA c :
                       startMatches(c, currentFilters.dateRange.startDate))
              ELSE r2
        r4 == IF currentFilters.dateRange # Null /\ currentFilters.dateRange.endDate # ""
              THEN SelectSeq(r3, LAMBDA c :
                       endMatches(c, currentFilters.dateRange.endDate, zone))
              ELSE r3
    IN  r4

--------------------------------------------------------------------------
(* SpecClassify: detectCommitType applied to bounded messages             *)

\* The pieces messages are assembled from: conventional-commit keywords in
\* both cases, the scope separator, and words the secondary check looks for.
MessageFragments ==
    {"feat", "Fix", "docs", "refactor", ": ", "add", "Update", "bug", "x"}

RECURSIVE Concat(_)
Concat(parts) == IF parts = <<>> THEN "" ELSE Head(parts) \o Concat(Tail(parts))

Messages ==
    { Concat(parts) :
        parts \in UNION { [1..n -> MessageFragments] : n \in 0..MaxFrags } }

ClassifyIdle ==
    /\ message = "" /\ msgType = "other" /\ msgTypeUpper = "other"
    /\ pcClassify = "off"

ParseIdle ==
    /\ logLines = <<>> /\ logOutput = "" /\ parsed = <<>> /\ pcParse = "off"

FilterIdle ==
    /\ records = <<>> /\ criteria = [type |-> "all", searchQuery |-> "", dateRange |-> Null]
    /\ result = <<>> /\ result2 = <<>> /\ filterOutcome = "none" /\ pcFilter = "off"

ComponentIdle ==
    /\ history = <<>>
    /\ commits = <<>> /\ filteredCommits = <<>> /\ loading = FALSE
    /\ error = "null" /\ currentPage = 1 /\ totalCommits = 0
    /\ filters = [type |-> "all", searchQuery |-> "", dateRange |-> Null]
    /\ fetches = {} /\ requestedPage = 1
    /\ cfSearchQuery = "" /\ cfType = "all" /\ showDateFilter = FALSE
    /\ cfDateRange = Null

UtilIdle == utilCall = [stage |-> "off"] /\ utilOutcome = Null

PaginationIdle ==
    /\ pgCurrentPage = 1 /\ pgTotalPages = 0 /\ pgPageRange = <<>>
    /\ pgOutput = Null /\ pgClick = "off" /\ pgEmitted = <<>>

\* Messages with each keyword of the classifier, alone and in pairs.
KeywordMessages ==
    { "docs: fix typo", "fix: docs", "chore: test", "test style", "style: new",
      "Refactor: clean", "new issue", "implement", "Issue in README",
      "document the upgrade", "comment", "clean", "Upgrade: feat", "prefix",
      "a:fix", "" }

ClassifyInit ==
    /\ message \in Messages \cup KeywordMessages
    /\ msgType = "other"
    /\ msgTypeUpper = "other"
    /\ pcClassify = "start"
    /\ ParseIdle
    /\ tz = "UTC" /\ FilterIdle /\ ComponentIdle /\ UtilIdle /\ PaginationIdle

Classify ==
    /\ pcClassify = "start"
    /\ msgType' = detectCommitType(message)
    /\ msgTypeUpper' = detectCommitType(toUpperCase(message))
    /\ pcClassify' = "done"
    /\ UNCHANGED <<message, parseVars, tz, filterVars, componentVars, utilVars,
                   paginationVars>>

ClassifyNext == Classify

SpecClassify == ClassifyInit /\ [][ClassifyNext]_vars

--------------------------------------------------------------------------
(* C2                                                                     *)

\* The step-1 rules of the classifier: keyword and the category it stands for.
Step1Rules ==
    { <<"feat", "feature">>, <<"fix", "fix">>, <<"docs", "docs">>,
      <<"chore", "chore">>, <<"refactor", "refactor">>, <<"test", "test">>,
      <<"style", "style">> }

Step1Matching(m) ==
    { r \in Step1Rules :
        startsWith(toLowerCase(m), r[1]) \/ includes(toLowerCase(m), ": " \o r[1]) }

\* C2: detectCommitType is total (every message maps to one of the eight
\* categories), independent of letter case (the upper-cased message gets the
\* same category), and when a step-1 rule (prefix or ": keyword" infix)
\* matches, the result is the category of a matching step-1 rule whatever
\* step-2 substrings the message contains.
C2_ClassifyTotalCaseFreeStep1First ==
    pcClassify = "done" =>
        /\ msgType \in CommitTypes
        /\ msgTypeUpper = msgType
        /\ Step1Matching(message) # {} =>
              msgType \in { r[2] : r \in Step1Matching(message) }

\* A message with a mixed-case step-1 keyword and a step-2 substring of
\* another category has been classified.
C2_Witness ==
    /\ pcClassify = "done"
    /\ message = "Fix: add"
    /\ msgType = "fix"

--------------------------------------------------------------------------
(* C19                                                                    *)

\* The rule list as C19 words it, in order.
ClaimedRuleList ==
    << [keyword |-> "feat", category |-> "feature"],
       [keyword |-> "fix", category |-> "fix"],
       [keyword |-> "docs", category |-> "docs"],
       [keyword |-> "chore", category |-> "chore"],
       [keyword |-> "refactor", category |-> "refactor"],
       [keyword |-> "test", category |-> "test"],
       [keyword |-> "style", category |-> "style"],
       [words |-> {"add", "new", "implement"}, category |-> "feature"],
       [words |-> {"fix", "bug", "issue"}, category |-> "fix"],
       [words |-> {"document", "readme", "comment"}, category |-> "docs"],
       [words |-> {"clean", "update", "upgrade"}, category |-> "chore"] >>

ruleMatches(rule, lower) ==
    IF "keyword" \in DOMAIN rule
    THEN startsWith(lower, rule.keyword) \/ includes(lower, ": " \o rule.keyword)
    ELSE \E w \in rule.words : includes(lower, w)

\* The category of the first rule at or after position i that matches.
RECURSIVE firstMatch(_, _, _)
firstMatch(rules, lower, i) ==
    IF i > Len(rules) THEN "other"
    ELSE IF ruleMatches(rules[i], lower) THEN rules[i].category
    ELSE firstMatch(rules, lower, i + 1)

\* C19: detectCommitType equals the first-match evaluation, on the
\* lower-cased message, of the rule list: for each keyword in the order
\* feat, fix, docs, chore, refactor, test, style, "starts with keyword or
\* contains ': keyword'"; then contains add/new/implement -> feature,
\* fix/bug/issue -> fix, document/readme/comment -> docs,
\* clean/update/upgrade -> chore; otherwise other.
C19_ClassifyIsFirstMatch ==
    pcClassify = "done" =>
        msgType = firstMatch(ClaimedRuleList, toLowerCase(message), 1)

\* The infix match of the earlier keyword fix has beaten the prefix match of
\* the later keyword docs.
C19_Witness ==
    /\ pcClassify = "done"
    /\ message = "docs: fix typo"
    /\ msgType = "fix"

--------------------------------------------------------------------------
(* SpecParse: parseGitLog applied to bounded log texts                    *)

\* A line is <<h, a, d, m>> (well formed: h, a and d hold no "|" and no line
\* break, m holds no line break) or <<w>>, a blank line of white space w.
WellFormedLines ==
    { <<"abc123", "Alice", "2024-01-05", "feat: add login">>,
      <<"def4567", "Bob B", "2024-02-29", "a|b|">>,
      <<"0a1b2c3", "Carol", "2024-03-01", "Fix | typo">>,
      <<"", "", "", "">>,
      <<" ", " ", " ", "|">> }

BlankLines == { <<"">>, <<"  ">>, <<"\t">> }

lineText(l) == IF Len(l) = 1 THEN l[1] ELSE join(l, "|")

LogTexts == UNION { [1..n -> WellFormedLines \cup BlankLines] : n \in 0..MaxLines }

ParseInit ==
    /\ logLines \in LogTexts
    /\ logOutput = join([i \in 1..Len(logLines) |-> lineText(logLines[i])], "\n")
    /\ parsed = <<>>
    /\ pcParse = "start"
    /\ ClassifyIdle
    /\ tz = "UTC" /\ FilterIdle /\ ComponentIdle /\ UtilIdle /\ PaginationIdle

Parse ==
    /\ pcParse = "start"
    /\ parsed' = parseGitLog(logOutput)
    /\ pcParse' = "done"
    /\ UNCHANGED <<logLines, logOutput, classifyVars, tz, filterVars,
                   componentVars, utilVars, paginationVars>>

ParseNext == Parse

SpecParse == ParseInit /\ [][ParseNext]_vars

--------------------------------------------------------------------------
(* C1                                                                     *)

ExpectedRecord(l) ==
    [hash |-> l[1], author |-> l[2], date |-> l[3], message |-> l[4],
     type |-> detectCommitType(l[4])]

\* C1: parseGitLog yields one record per non-blank line, in input order,
\* and none for a blank line; the record of the well-formed line h|a|d|m is
\* {hash: h, author: a, date: d, message: m, type: detectCommitType(m)}:
\* only the first three "|" separate fields.
C1_ParseOneRecordPerLine ==
    pcParse = "done" =>
        LET nonBlank == SelectSeq(logLines, LAMBDA l : Len(l) = 4) IN
        parsed = [i \in 1..Len(nonBlank) |-> ExpectedRecord(nonBlank[i])]

\* A text with a blank line between two lines, one of whose messages holds
\* the delimiter, has been parsed into two records.
C1_Witness ==
    /\ pcParse = "done"
    /\ Len(logLines) = 3
    /\ logLines[1] = <<"def4567", "Bob B", "2024-02-29", "a|b|">>
    /\ logLines[2] = <<"  ">>
    /\ Len(logLines[3]) = 4
    /\ Len(parsed) = 2
    /\ parsed[1].message = "a|b|"

--------------------------------------------------------------------------
(* SpecParseShort: parseGitLog applied to texts with short lines          *)

\* Lines that are not blank and split into fewer than four parts.
ShortLines ==
    { <<"abc123">>,
      <<"abc123", "Alice">>,
      <<"abc123", "Alice", "2024-01-05">>,
      <<"", "Bob">> }

ShortLogTexts ==
    UNION { [1..n -> ShortLines
                      \cup {<<"def4567", "Bob B", "2024-02-29", "a|b|">>, <<"  ">>}] :
            n \in 0..MaxLines }

ParseShortInit ==
    /\ logLines \in ShortLogTexts
    /\ logOutput = join([i \in 1..Len(logLines) |-> lineText(logLines[i])], "\n")
    /\ parsed = <<>>
    /\ pcParse = "start"
    /\ ClassifyIdle
    /\ tz = "UTC" /\ FilterIdle /\ ComponentIdle /\ UtilIdle /\ PaginationIdle

SpecParseShort == ParseShortInit /\ [][ParseNext]_vars

--------------------------------------------------------------------------
(* C11                                                                    *)

\* The i-th part of a line, or the empty string when the line has no such
\* part.
partOrEmpty(l, i) == IF i <= Len(l) THEN l[i] ELSE ""

\* C11: a line with fewer than four "|"-separated parts still produces a
\* record, and every field missing from the line (author, date, message) is
\* the empty string in that record.
C11_MissingFieldsAreEmptyStrings ==
    pcParse = "done" =>
        LET nonBlank == SelectSeq(logLines, LAMBDA l : trim(lineText(l)) # "") IN
        /\ Len(parsed) = Len(nonBlank)
        /\ \A i \in 1..Len(nonBlank) :
              /\ DOMAIN parsed[i] = {"hash", "author", "date", "message", "type"}
              /\ parsed[i].hash = nonBlank[i][1]
              /\ parsed[i].author = partOrEmpty(nonBlank[i], 2)
              /\ parsed[i].date = partOrEmpty(nonBlank[i], 3)
              /\ parsed[i].message = join(SubSeq(nonBlank[i], 4, Len(nonBlank[i])), "|")

--------------------------------------------------------------------------
(* SpecFilter: filterCommits applied to bounded record lists and criteria *)

commitRecord(h, a, d, m) ==
    [hash |-> h, author |-> a, date |-> d, message |-> m,
     type |-> detectCommitType(m)]

RecordPool ==
    { commitRecord("abc123", "Alice", "2024-11-02", "feat: add login"),
      commitRecord("def4567", "Bob", "2024-11-03", "Fix typo"),
      commitRecord("0a1b2c3", "alice", "2024-11-04", "docs: readme"),
      commitRecord("fff0000", "Carol", "", "fix: bug") }

TypeChoices == {"all", "fix"}
SearchChoices == {"", "  ", "fix", " fix", "ALICE"}
BoundChoices == {"", "2024-11-02", "2024-11-03", "not-a-date"}

DateRangeChoices ==
    {Null} \cup [startDate : BoundChoices, endDate : BoundChoices]

FilterInit ==
    /\ records \in UNION { [1..n -> RecordPool] : n \in 0..MaxRecords }
    /\ criteria \in [type : TypeChoices, searchQuery : SearchChoices,
                     dateRange : DateRangeChoices]
    /\ tz \in TimeZones
    /\ result = <<>> /\ result2 = <<>>
    /\ filterOutcome = "none"
    /\ pcFilter = "start"
    /\ ClassifyIdle /\ ParseIdle /\ ComponentIdle /\ UtilIdle /\ PaginationIdle

\* result = filterCommits(records, criteria): the function has no throw and
\* no error value, every call returns a list.
FilterCall ==
    /\ pcFilter = "start"
    /\ result' = filterCommits(records, criteria, tz)
    /\ filterOutcome' = "returned"
    /\ pcFilter' = "once"
    /\ UNCHANGED <<records, criteria, result2, tz, classifyVars, parseVars,
                   componentVars, utilVars, paginationVars>>

\* result2 = filterCommits(result, criteria)
FilterAgain ==
    /\ pcFilter = "once"
    /\ result2' = filterCommits(result, criteria, tz)
    /\ filterOutcome' = "returned"
    /\ pcFilter' = "twice"
    /\ UNCHANGED <<records, criteria, result, tz, classifyVars, parseVars,
                   componentVars, utilVars, paginationVars>>

FilterNext == FilterCall \/ FilterAgain

SpecFilter == FilterInit /\ [][FilterNext]_vars

--------------------------------------------------------------------------
(* C3 - C7, C10                                                           *)

\* C3: filterCommits is idempotent: filterCommits(filterCommits(R, C), C)
\* equals filterCommits(R, C) for every record list R and criteria C.
C3_FilterIdempotent == pcFilter = "twice" => result2 = result

\* A filter that drops one of two records has been applied twice.
C3_Witness ==
    /\ pcFilter = "twice"
    /\ Len(records) = 2
    /\ Len(result) = 1
    /\ criteria.searchQuery = "fix"

typeActive(currentFilters) == currentFilters.type # "all"
textActive(currentFilters) == trim(currentFilters.searchQuery) # ""
startActive(currentFilters) ==
    currentFilters.dateRange # Null /\ currentFilters.dateRange.startDate # ""
endActive(currentFilters) ==
    currentFilters.dateRange # Null /\ currentFilters.dateRange.endDate # ""

passesAll(c, currentFilters, zone) ==
    /\ typeActive(currentFilters) => typeMatches(c, currentFilters)
    /\ textActive(currentFilters) => textMatches(c, toLowerCase(currentFilters.searchQuery))
    /\ startActive(currentFilters) => startMatches(c, currentFilters.dateRange.startDate)
    /\ endActive(currentFilters) => endMatches(c, currentFilters.dateRange.endDate, zone)

\* C4: the result of filterCommits is the input with exactly the records
\* removed that fail an active filter (category, text, lower date bound,
\* upper date bound), the order kept: the active filters combine with AND
\* and an inactive filter excludes nothing.
C4_FilterSubsequenceAnd ==
    pcFilter \in {"once", "twice"} =>
        result = SelectSeq(records, LAMBDA c : passesAll(c, criteria, tz))

\* Three filters are active at once, and one of two records passes them all.
C4_Witness ==
    /\ pcFilter = "once"
    /\ typeActive(criteria) /\ textActive(criteria) /\ startActive(criteria)
    /\ Len(records) = 2 /\ records[1] # records[2]
    /\ Len(result) = 1

\* C5: with category 'all', an empty search text and a null date range
\* filterCommits returns the input: the same records in the same order.
C5_NoFilterIsIdentity ==
    (/\ pcFilter \in {"once", "twice"}
     /\ criteria.type = "all"
     /\ criteria.searchQuery = ""
     /\ criteria.dateRange = Null) => result = records

\* Two different records have gone through filterCommits with no filter set.
C5_Witness ==
    /\ pcFilter = "once"
    /\ criteria = [type |-> "all", searchQuery |-> "", dateRange |-> Null]
    /\ Len(records) = 2 /\ records[1] # records[2]
    /\ result = records

\* The calendar day (days since the epoch) a date string names.
dayOf(s) == newDate(s).time \div 24

\* C6: the date range is inclusive at both ends.  With a (parseable)
\* start, a record is kept iff its date is on or after start; with a
\* (parseable) end, a record dated end is kept and a record dated end + 1
\* day is excluded; an empty bound excludes nothing.
C6_DateRangeInclusive ==
    (/\ pcFilter \in {"once", "twice"}
     /\ criteria.type = "all" /\ ~textActive(criteria)
     /\ criteria.dateRange # Null) =>
        LET startDate == criteria.dateRange.startDate
            endDate == criteria.dateRange.endDate
            kept(c) == \E i \in 1..Len(result) : result[i] = c
        IN  \A i \in 1..Len(records) :
              LET c == records[i] IN
              /\ (isIsoDate(startDate) /\ endDate = "") =>
                    (kept(c) <=> (isIsoDate(c.date)
                                    /\ dayOf(c.date) >= dayOf(startDate)))
              /\ (isIsoDate(endDate) /\ startDate = "" /\ isIsoDate(c.date)) =>
                    /\ dayOf(c.date) = dayOf(endDate) => kept(c)
                    /\ dayOf(c.date) = dayOf(endDate) + 1 => ~kept(c)
              /\ (startDate = "" /\ endDate = "") => kept(c)

\* C7: when the trimmed search text is not empty, the records kept are
\* exactly those (passing the other filters) whose lower-cased message,
\* author or hash contains the lower-cased trimmed search text.
C7_TextFilterUsesTrimmedQuery ==
    (pcFilter \in {"once", "twice"} /\ textActive(criteria)) =>
        result = SelectSeq(records, LAMBDA c :
                    /\ passesAll(c, [criteria EXCEPT !.searchQuery = ""], tz)
                    /\ textMatches(c, toLowerCase(trim(criteria.searchQuery))))

hasUnparseableBound(currentFilters) ==
    /\ currentFilters.dateRange # Null
    /\ \/ currentFilters.dateRange.startDate # "" /\ ~isIsoDate(currentFilters.dateRange.startDate)
       \/ currentFilters.dateRange.endDate # "" /\ ~isIsoDate(currentFilters.dateRange.endDate)

\* C10: a call of filterCommits whose criteria hold an unparseable date
\* bound ends by reporting the invalid input to the caller, not by returning
\* a list.
C10_UnparseableBoundReported ==
    (pcFilter \in {"once", "twice"} /\ hasUnparseableBound(criteria)) =>
        filterOutcome = "InvalidFilterInput"

--------------------------------------------------------------------------
(* The git repository and the two commands the component runs             *)

\* The decimal digits of the natural number n.
RECURSIVE toDecimal(_)
toDecimal(n) ==
    IF n < 10 THEN charAt(Digits, n + 1)
    ELSE toDecimal(n \div 10) \o charAt(Digits, (n % 10) + 1)

\* The leading decimal digits of s.
RECURSIVE digitPrefix(_)
digitPrefix(s) ==
    IF s # "" /\ isDigit(charAt(s, 1))
    THEN charAt(s, 1) \o digitPrefix(Tail(s))
    ELSE ""

\* parseInt(s, 10) of a string that starts with a digit (git prints one).
parseInt(s) == toNumber(digitPrefix(s))

Authors == <<"Alice", "Bob">>
Subjects == <<"feat: add login", "Fix typo", "docs: readme", "update deps">>

\* The line git log --pretty=format:"%h|%an|%ad|%s" --date=short prints for
\* the i-th newest commit.
historyLine(i) ==
    join(<<"c0ffe" \o toDecimal(10 + i),
           Authors[(i % 2) + 1],
           IF i % 3 = 0 THEN "2024-11-04" ELSE "2024-11-03",
           Subjects[(i % 4) + 1]>>, "|")

Histories == { [i \in 1..n |-> historyLine(i)] : n \in {0, MaxHistory} }

\* stdout of git rev-list --count HEAD
gitRevListCount(h) == toDecimal(Len(h)) \o "\n"

\* stdout of git log ... -n n --skip=skip
gitLog(h, n, skip) ==
    LET last == IF skip + n < Len(h) THEN skip + n ELSE Len(h) IN
    join(SubSeq(h, skip + 1, last), "\n")

--------------------------------------------------------------------------
(* Pagination                                                             *)

maxPageButtons == 5

\* Math.max(a, b)
max(a, b) == IF a >= b THEN a ELSE b

\* getPageRange without the adjustment for a window that exceeds totalPages.
getPageRange_noAdjust(page, pages) ==
    IF pages <= maxPageButtons THEN [i \in 1..pages |-> i]
    ELSE LET start == max(page - (maxPageButtons \div 2), 1)
         IN  [i \in 1..maxPageButtons |-> start + i - 1]

\* getPageRange without the lower limit of the first start.
getPageRange_noFloor(page, pages) ==
    IF pages <= maxPageButtons THEN [i \in 1..pages |-> i]
    ELSE LET start0 == page - (maxPageButtons \div 2)
             end0 == start0 + maxPageButtons - 1
             end == IF end0 > pages THEN pages ELSE end0
             start == IF end0 > pages THEN max(end - maxPageButtons + 1, 1)
                      ELSE start0
         IN  [i \in 1..(end - start + 1) |-> start + i - 1]

getPageRange(page, pages) ==
    IF pages <= maxPageButtons THEN [i \in 1..pages |-> i]
    ELSE LET start0 == max(page - (maxPageButtons \div 2), 1)
             end0 == start0 + maxPageButtons - 1
             end == IF end0 > pages THEN pages ELSE end0
             start == IF end0 > pages THEN max(end - maxPageButtons + 1, 1)
                      ELSE start0
         IN  [i \in 1..(end - start + 1) |-> start + i - 1]

\* The page numbers a click on a rendered Pagination passes to onPageChange:
\* Previous, Next, the buttons of the window, the first and the last page.
pageClicks(page, pages) ==
    LET pageRange == getPageRange(page, pages) IN
    IF pages <= 1 THEN {}
    ELSE (IF page > 1 THEN {page - 1} ELSE {})
         \cup (IF page < pages THEN {page + 1} ELSE {})
         \cup { pageRange[i] : i \in 1..Len(pageRange) }
         \cup (IF pageRange[1] > 1 THEN {1} ELSE {})
         \cup (IF pageRange[Len(pageRange)] < pages THEN {pages} ELSE {})

\* The elements of <div className="page-numbers">, in document order, are
\* records: kind is "first" (the page 1 button), "page" (a button of the
\* window), "last" (the last page button) or "ellipsis"; page is the label
\* of a button and the argument its onClick passes to onPageChange.
Ellipsis == [kind |-> "ellipsis"]

\* firstPageBlock with the ellipsis shown whenever the page 1 button is.
firstPageBlock_ellipsisAlways(pageRange) ==
    IF pageRange[1] > 1
    THEN <<[kind |-> "first", page |-> 1], Ellipsis>>
    ELSE <<>>

\* {pageRange[0] > 1 && (<> button 1, {pageRange[0] > 2 && ellipsis} </>)}
firstPageBlock(pageRange) ==
    IF pageRange[1] > 1
    THEN <<[kind |-> "first", page |-> 1]>>
         \o (IF pageRange[1] > 2 THEN <<Ellipsis>> ELSE <<>>)
    ELSE <<>>

\* pageRange.map((page) => <button ...>{page}</button>)
pageButtons(pageRange, page) ==
    [i \in 1..Len(pageRange) |->
        [kind |-> "page", page |-> pageRange[i], active |-> pageRange[i] = page]]

\* lastPageBlock with the last page button shown whatever the window is.
lastPageBlock_always(pageRange, pages) ==
    (IF pageRange[Len(pageRange)] < pages - 1 THEN <<Ellipsis>> ELSE <<>>)
    \o <<[kind |-> "last", page |-> pages]>>

\* {pageRange[pageRange.length - 1] < totalPages && (<> ellipsis, button </>)}
lastPageBlock(pageRange, pages) ==
    IF pageRange[Len(pageRange)] < pages
    THEN (IF pageRange[Len(pageRange)] < pages - 1 THEN <<Ellipsis>> ELSE <<>>)
         \o <<[kind |-> "last", page |-> pages]>>
    ELSE <<>>

\* Pagination returning null only when there is no page at all.
Pagination_nullWithoutPages(page, pages) ==
    IF pages <= 0 THEN Null
    ELSE LET pageRange == getPageRange(page, pages) IN
         [prev |-> [disabled |-> page = 1],
          pageNumbers |-> firstPageBlock(pageRange)
                            \o pageButtons(pageRange, page)
                            \o lastPageBlock(pageRange, pages),
          next |-> [disabled |-> page = pages],
          info |-> [page |-> page, of |-> pages]]

\* What the component returns: null, or the Previous button, the page
\* numbers, the Next button and the "Page x of y" line.
Pagination(page, pages) ==
    IF pages <= 1 THEN Null
    ELSE LET pageRange == getPageRange(page, pages) IN
         [prev |-> [disabled |-> page = 1],
          pageNumbers |-> firstPageBlock(pageRange)
                            \o pageButtons(pageRange, page)
                            \o lastPageBlock(pageRange, pages),
          next |-> [disabled |-> page = pages],
          info |-> [page |-> page, of |-> pages]]

\* handlePrev: the calls of onPageChange it makes.
handlePrev(page) == IF page > 1 THEN <<page - 1>> ELSE <<>>

\* handleNext: the calls of onPageChange it makes.
handleNext(page, pages) == IF page < pages THEN <<page + 1>> ELSE <<>>

--------------------------------------------------------------------------
(* SpecPagination: Pagination under a parent that keeps totalPages and    *)
(* makes the page passed to onPageChange the currentPage prop             *)

MaxPages == 13

PaginationInit ==
    /\ pgTotalPages \in 0..MaxPages
    /\ pgCurrentPage = 1
    /\ pgPageRange = getPageRange(pgCurrentPage, pgTotalPages)
    /\ pgOutput = Pagination(pgCurrentPage, pgTotalPages)
    /\ pgClick = "none"
    /\ pgEmitted = <<>>
    /\ tz = "UTC"
    /\ ClassifyIdle /\ ParseIdle /\ FilterIdle /\ ComponentIdle /\ UtilIdle

paginationRest ==
    <<classifyVars, parseVars, filterVars, tz, componentVars, utilVars>>

\* What follows a press of a control whose handler made the calls emitted:
\* the parent sets currentPage to the page passed, and Pagination renders
\* again.
afterPress(control, emitted) ==
    /\ pgClick' = control
    /\ pgEmitted' = emitted
    /\ pgCurrentPage' = IF emitted = <<>> THEN pgCurrentPage
                        ELSE emitted[Len(emitted)]
    /\ pgPageRange' = getPageRange(pgCurrentPage', pgTotalPages)
    /\ pgOutput' = Pagination(pgCurrentPage', pgTotalPages)
    /\ UNCHANGED <<pgTotalPages, paginationRest>>

\* The Previous button is pressed: a disabled button fires no click.
PressPrevious ==
    /\ pgOutput # Null
    /\ afterPress("prev", IF pgOutput.prev.disabled THEN <<>>
                          ELSE handlePrev(pgCurrentPage))

\* The Next button is pressed.
PressNext ==
    /\ pgOutput # Null
    /\ afterPress("next", IF pgOutput.next.disabled THEN <<>>
                          ELSE handleNext(pgCurrentPage, pgTotalPages))

\* One of the buttons of the page numbers is pressed.
PressPageNumber ==
    /\ pgOutput # Null
    /\ \E i \in 1..Len(pgOutput.pageNumbers) :
          /\ pgOutput.pageNumbers[i] # Ellipsis
          /\ afterPress(pgOutput.pageNumbers[i].kind,
                        <<pgOutput.pageNumbers[i].page>>)

PaginationNext == PressPrevious \/ PressNext \/ PressPageNumber

SpecPagination == PaginationInit /\ [][PaginationNext]_vars

--------------------------------------------------------------------------
(* The Changelog component                                                *)

COMMITS_PER_PAGE == 10

FetchErrorMessage ==
    "Failed to load git history. This could be because the component is running in a build environment without git access."

\* The classifier the component defines for itself.
Changelog_detectCommitType(m) ==
    LET lowerMessage == toLowerCase(m) IN
    IF startsWith(lowerMessage, "feat") \/ includes(lowerMessage, ": feat")
        THEN "feature"
    ELSE IF startsWith(lowerMessage, "fix") \/ includes(lowerMessage, ": fix")
        THEN "fix"
    ELSE IF startsWith(lowerMessage, "docs") \/ includes(lowerMessage, ": docs")
        THEN "docs"
    ELSE IF startsWith(lowerMessage, "chore") \/ includes(lowerMessage, ": chore")
        THEN "chore"
    ELSE IF startsWith(lowerMessage, "refactor")
            \/ includes(lowerMessage, ": refactor")
        THEN "refactor"
    ELSE IF startsWith(lowerMessage, "test") \/ includes(lowerMessage, ": test")
        THEN "test"
    ELSE IF startsWith(lowerMessage, "style") \/ includes(lowerMessage, ": style")
        THEN "style"
    ELSE "other"

\* logEntries of fetchGitHistory
logEntriesOf(stdout) ==
    LET lines == nonBlankLines(stdout) IN
    [i \in 1..Len(lines) |->
        LET parts == split(lines[i], "|") IN
        commitOf(parts, Changelog_detectCommitType(messageOf(parts)))]

\* The list applyFilters passes to setFilteredCommits.
applyFilters(commitsToFilter, currentFilters, zone) ==
    LET r1 == IF currentFilters.type # "all"
              THEN SelectSeq(commitsToFilter,
                             LAMBDA c : c.type = currentFilters.type)
              ELSE commitsToFilter
        r2 == IF trim(currentFilters.searchQuery) # ""
              THEN SelectSeq(r1, LAMBDA c :
                       textMatches(c, toLowerCase(currentFilters.searchQuery)))
              ELSE r1
        r3 == IF currentFilters.dateRange # Null
                  /\ currentFilters.dateRange.startDate # ""
              THEN SelectSeq(r2, LAMBDA c :
                       startMatches(c, currentFilters.dateRange.startDate))
              ELSE r2
        r4 == IF currentFilters.dateRange # Null
                  /\ currentFilters.dateRange.endDate # ""
              THEN SelectSeq(r3, LAMBDA c :
                       endMatches(c, currentFilters.dateRange.endDate, zone))
              ELSE r3
    IN  r4

\* Math.ceil(totalCommits / COMMITS_PER_PAGE)
totalPages == (totalCommits + COMMITS_PER_PAGE - 1) \div COMMITS_PER_PAGE

\* paginationRendered with the render not looking at loading.
paginationRendered_whileLoading ==
    /\ error = "null"
    /\ filteredCommits # <<>>
    /\ totalPages > 1

\* paginationRendered with the render not looking at error.
paginationRendered_ignoringError ==
    /\ ~loading
    /\ filteredCommits # <<>>
    /\ totalPages > 1

\* The branch of the render that holds <Pagination>, and Pagination not
\* returning null.
paginationRendered ==
    /\ ~loading
    /\ error = "null"
    /\ filteredCommits # <<>>
    /\ totalPages > 1

\* A call of fetchGitHistory(page) up to its first await; the closure holds
\* the filters of the render that made the call.  before records what the
\* component held when the call was made.
newFetch(page) ==
    [page |-> page, filters |-> filters, stage |-> "count",
     before |-> [totalCommits |-> totalCommits, commits |-> commits]]

\* The values the user gives the filter controls.
TypeOptions == {"all", "fix"}
SearchInputs == {"", "c0ffe1"}
DateInputs == {"", "2024-11-03"}

Init ==
    /\ history \in Histories
    /\ tz \in TimeZones
    /\ commits = <<>>
    /\ filteredCommits = <<>>
    /\ loading = TRUE
    /\ error = "null"
    /\ currentPage = 1
    /\ totalCommits = 0
    /\ filters = [type |-> "all", searchQuery |-> "", dateRange |-> Null]
    /\ fetches = {newFetch(1)}
    /\ requestedPage = 1
    /\ cfSearchQuery = ""
    /\ cfType = "all"
    /\ showDateFilter = FALSE
    /\ cfDateRange = Null
    /\ ClassifyIdle /\ ParseIdle /\ FilterIdle /\ UtilIdle /\ PaginationIdle

idleVars ==
    <<classifyVars, parseVars, filterVars, tz, history, utilVars, paginationVars>>

\* git rev-list --count HEAD resolves: setTotalCommits(totalCount), then the
\* git log command is started.
CountSucceeds ==
    \E f \in fetches :
        /\ f.stage = "count"
        /\ totalCommits' = parseInt(trim(gitRevListCount(history)))
        /\ fetches' = (fetches \ {f}) \cup {[f EXCEPT !.stage = "log"]}
        /\ UNCHANGED <<commits, filteredCommits, loading, error, currentPage,
                       filters, requestedPage, changelogFilterVars, idleVars>>

\* git rev-list --count HEAD rejects: the catch block.
CountFails ==
    \E f \in fetches :
        /\ f.stage = "count"
        /\ error' = FetchErrorMessage
        /\ loading' = FALSE
        /\ fetches' = fetches \ {f}
        /\ UNCHANGED <<commits, filteredCommits, currentPage, totalCommits,
                       filters, requestedPage, changelogFilterVars, idleVars>>

\* git log resolves: the rest of the try block.
LogSucceeds ==
    \E f \in fetches :
        /\ f.stage = "log"
        /\ LET skip == (f.page - 1) * COMMITS_PER_PAGE
               stdout == gitLog(history, COMMITS_PER_PAGE, skip)
               logEntries == logEntriesOf(stdout)
           IN  IF trim(stdout) = ""
               THEN commits' = <<>> /\ filteredCommits' = <<>>
               ELSE /\ commits' = logEntries
                    /\ filteredCommits' = applyFilters(commits', f.filters, tz)
        /\ loading' = FALSE
        /\ fetches' = fetches \ {f}
        /\ UNCHANGED <<error, currentPage, totalCommits, filters,
                       requestedPage, changelogFilterVars, idleVars>>

\* git log rejects: the catch block.
LogFails ==
    \E f \in fetches :
        /\ f.stage = "log"
        /\ error' = FetchErrorMessage
        /\ loading' = FALSE
        /\ fetches' = fetches \ {f}
        /\ UNCHANGED <<commits, filteredCommits, currentPage, totalCommits,
                       filters, requestedPage, changelogFilterVars, idleVars>>

\* A click in Pagination: handlePageChange(page).
HandlePageChange ==
    \E page \in pageClicks(currentPage, totalPages) :
        /\ paginationRendered
        /\ currentPage' = page
        /\ loading' = TRUE
        /\ fetches' = fetches \cup {newFetch(page)}
        /\ requestedPage' = page
        /\ UNCHANGED <<commits, filteredCommits, error, totalCommits, filters,
                       changelogFilterVars, idleVars>>

\* handleFilterChange(newFilters), which ChangelogFilter calls as
\* onFilterChange.
handleFilterChange(newFilters) ==
    /\ filters' = newFilters
    /\ currentPage' = 1
    /\ filteredCommits' = applyFilters(commits, newFilters, tz)
    /\ UNCHANGED <<commits, loading, error, totalCommits, fetches,
                   requestedPage, idleVars>>

\* The type select changes.
HandleTypeChange ==
    \E newType \in TypeOptions \ {cfType} :
        /\ cfType' = newType
        /\ handleFilterChange([type |-> newType, searchQuery |-> cfSearchQuery,
                               dateRange |-> cfDateRange])
        /\ UNCHANGED <<cfSearchQuery, showDateFilter, cfDateRange>>

\* The search input changes.
HandleSearchChange ==
    \E value \in SearchInputs \ {cfSearchQuery} :
        /\ cfSearchQuery' = value
        /\ handleFilterChange([type |-> cfType, searchQuery |-> value,
                               dateRange |-> cfDateRange])
        /\ UNCHANGED <<cfType, showDateFilter, cfDateRange>>

\* One of the two date inputs, shown with the date filter, changes.
HandleDateChange ==
    \E field \in {"startDate", "endDate"}, value \in DateInputs :
        LET old == IF cfDateRange # Null THEN cfDateRange
                   ELSE [startDate |-> "", endDate |-> ""]
            updatedDateRange == [old EXCEPT ![field] = value]
        IN  /\ showDateFilter
            /\ value # old[field]
            /\ cfDateRange' = updatedDateRange
            /\ IF updatedDateRange.startDate # "" \/ updatedDateRange.endDate # ""
               THEN handleFilterChange([type |-> cfType,
                                        searchQuery |-> cfSearchQuery,
                                        dateRange |-> updatedDateRange])
               ELSE handleFilterChange([type |-> cfType,
                                        searchQuery |-> cfSearchQuery,
                                        dateRange |-> Null])
            /\ UNCHANGED <<cfSearchQuery, cfType, showDateFilter>>

\* The date filter button: hiding the date filter drops a date range.
ToggleDateFilter ==
    /\ showDateFilter' = ~showDateFilter
    /\ IF showDateFilter /\ cfDateRange # Null
       THEN /\ cfDateRange' = Null
            /\ handleFilterChange([type |-> cfType,
                                   searchQuery |-> cfSearchQuery,
                                   dateRange |-> Null])
       ELSE UNCHANGED <<cfDateRange, changelogVars, idleVars>>
    /\ UNCHANGED <<cfSearchQuery, cfType>>

Next ==
    \/ CountSucceeds
    \/ CountFails
    \/ LogSucceeds
    \/ LogFails
    \/ HandlePageChange
    \/ HandleTypeChange
    \/ HandleSearchChange
    \/ HandleDateChange
    \/ ToggleDateFilter

Spec == Init /\ [][Next]_vars

--------------------------------------------------------------------------
(* SpecFetch: utils.ts fetchGitHistory                                    *)

UtilErrorMessage ==
    "Failed to fetch git history. This could be because the component is running in a build environment without git access."

PageArguments == 1..4
PerPageArguments == {1, COMMITS_PER_PAGE}

UtilInit ==
    /\ history \in Histories
    /\ \E page \in PageArguments, perPage \in PerPageArguments :
          utilCall = [stage |-> "count", page |-> page, perPage |-> perPage]
    /\ utilOutcome = Null
    /\ tz = "UTC"
    /\ commits = <<>> /\ filteredCommits = <<>> /\ loading = FALSE
    /\ error = "null" /\ currentPage = 1 /\ totalCommits = 0
    /\ filters = [type |-> "all", searchQuery |-> "", dateRange |-> Null]
    /\ fetches = {} /\ requestedPage = 1
    /\ cfSearchQuery = "" /\ cfType = "all" /\ showDateFilter = FALSE
    /\ cfDateRange = Null
    /\ ClassifyIdle /\ ParseIdle /\ FilterIdle /\ PaginationIdle

utilRest ==
    <<classifyVars, parseVars, filterVars, tz, componentVars, paginationVars>>

\* git rev-list --count HEAD resolves: totalCount is a local.
UtilCountSucceeds ==
    /\ utilCall.stage = "count"
    /\ utilCall' = [stage |-> "log", page |-> utilCall.page,
                    perPage |-> utilCall.perPage,
                    totalCount |-> parseInt(trim(gitRevListCount(history)))]
    /\ UNCHANGED <<utilOutcome, utilRest>>

\* git log resolves: the function returns { commits, totalCount }.
UtilLogSucceeds ==
    /\ utilCall.stage = "log"
    /\ LET skip == (utilCall.page - 1) * utilCall.perPage
           stdout == gitLog(history, utilCall.perPage, skip)
       IN  utilOutcome' =
              [commits |-> IF trim(stdout) = "" THEN <<>> ELSE parseGitLog(stdout),
               totalCount |-> utilCall.totalCount]
    /\ utilCall' = [stage |-> "returned"]
    /\ UNCHANGED utilRest

\* Either command rejects: the catch block throws one Error.
UtilFails ==
    /\ utilCall.stage \in {"count", "log"}
    /\ utilOutcome' = [error |-> UtilErrorMessage]
    /\ utilCall' = [stage |-> "thrown"]
    /\ UNCHANGED utilRest

UtilNext == UtilCountSucceeds \/ UtilLogSucceeds \/ UtilFails

SpecFetch == UtilInit /\ [][UtilNext]_vars

\* utils.fetchGitHistory hands its caller nothing before it ends, then
\* either records and count together or one error.
UtilAllOrNothing ==
    /\ utilCall.stage \in {"count", "log"} => utilOutcome = Null
    /\ utilCall.stage = "returned" => DOMAIN utilOutcome = {"commits", "totalCount"}
    /\ utilCall.stage = "thrown" => utilOutcome = [error |-> UtilErrorMessage]

--------------------------------------------------------------------------
(* C8, C9                                                                 *)

\* C8: a fetch is all or nothing: at the step where a fetch of the
\* Changelog component fails (either command rejects), the total count and
\* the records are what they were when the fetch was started.
C8_FetchAllOrNothing ==
    [][\A f \in fetches :
          (f \notin fetches' /\ error = "null" /\ error' # "null") =>
              /\ totalCommits' = f.before.totalCommits
              /\ commits' = f.before.commits
              /\ filteredCommits' = filteredCommits]_vars

\* The records git log prints for a page, as the component parses them.
recordsOfPage(page) ==
    logEntriesOf(gitLog(history, COMMITS_PER_PAGE, (page - 1) * COMMITS_PER_PAGE))

\* C9: whenever loading has finished without error, the records held are
\* the ones fetched (limit 10, skip (currentPage - 1) * 10) for the page
\* shown as currentPage.
C9_RecordsAreOfCurrentPage ==
    (~loading /\ error = "null") => commits = recordsOfPage(currentPage)

--------------------------------------------------------------------------
(* C12                                                                    *)

\* C12: once a fetch has failed the component is in an error state: loading
\* is false, error holds the one error message and no fetch is in flight;
\* and no step leaves the error state: the error stays as it is, so loading
\* never becomes true again, no fetch is issued and the list is not shown.
C12_ErrorStateIsFinal ==
    [][/\ error' # "null" =>
            (error' = FetchErrorMessage /\ ~loading' /\ fetches' = {})
       /\ error # "null" => error' = error]_vars

\* The fetch of page 2 has failed after page 1 had been loaded and shown
\* with the type filter set.
C12_Witness ==
    /\ error = FetchErrorMessage
    /\ ~loading
    /\ currentPage = 2
    /\ commits # <<>>
    /\ filters.type = "fix"

--------------------------------------------------------------------------
(* C13                                                                    *)

\* C13: the latest response wins: whenever no fetch is in flight (and the
\* last one did not fail), the records held are those of the page most
\* recently requested and the total count is the one of the repository,
\* never those of an older request.
C13_LatestResponseWins ==
    (fetches = {} /\ error = "null") =>
        /\ commits = recordsOfPage(requestedPage)
        /\ totalCommits = Len(history)

\* Page 1 was loaded, then page 3 was requested, its fetch has completed and
\* its records are held.
C13_Witness ==
    /\ fetches = {}
    /\ error = "null"
    /\ requestedPage = 3
    /\ commits = recordsOfPage(3)
    /\ commits # recordsOfPage(1)

--------------------------------------------------------------------------
(* C14                                                                    *)

\* C14: every criteria value ChangelogFilter passes to onFilterChange (the
\* value handleFilterChange stores in filters) has a dateRange that is null
\* or has at least one non-empty bound: a dateRange with both bounds empty
\* is never emitted.
C14_EmittedDateRangeNeverEmpty ==
    \/ filters.dateRange = Null
    \/ filters.dateRange.startDate # ""
    \/ filters.dateRange.endDate # ""

--------------------------------------------------------------------------
(* C15 - C18                                                              *)

\* The pages from a to b in increasing order.
pagesFromTo(a, b) == [i \in 1..(b - a + 1) |-> a + i - 1]

\* The window as C15 words it.
ClaimedWindow(page, pages) ==
    IF pages <= 5 THEN pagesFromTo(1, pages)
    ELSE LET start == max(page - 2, 1)
             end == start + 4
         IN  IF end > pages THEN pagesFromTo(max(pages - 4, 1), pages)
             ELSE pagesFromTo(start, end)

\* C15: the page window of Pagination is 1..totalPages when totalPages <= 5;
\* otherwise start = max(currentPage - 2, 1), end = start + 4, and if end >
\* totalPages then end = totalPages and start = max(end - 4, 1).  For
\* totalPages = 12 and currentPage = 6 the window is 4,5,6,7,8.
C15_PageWindow ==
    /\ pgPageRange = ClaimedWindow(pgCurrentPage, pgTotalPages)
    /\ (pgTotalPages = 12 /\ pgCurrentPage = 6) => pgPageRange = <<4, 5, 6, 7, 8>>

\* Page 6 of 12 has been reached with Next and rendered.
C15_Witness ==
    /\ pgTotalPages = 12
    /\ pgCurrentPage = 6
    /\ pgClick = "next"
    /\ pgPageRange = <<4, 5, 6, 7, 8>>

\* C16: a separate page 1 button is shown iff the window's first page is
\* > 1, with an ellipsis after it iff the window's first page is > 2; a
\* separate last page button is shown iff the window's last page is <
\* totalPages, with an ellipsis before it iff the window's last page is <
\* totalPages - 1; there is no other ellipsis, and for totalPages <= 5 no
\* boundary button and no ellipsis are shown.
C16_BoundaryControls ==
    pgOutput # Null =>
        LET first == pgPageRange[1]
            last == pgPageRange[Len(pgPageRange)]
            els == pgOutput.pageNumbers
            n == Len(els)
            firstButtons == { i \in 1..n : els[i].kind = "first" }
            lastButtons == { i \in 1..n : els[i].kind = "last" }
            ellipses == { i \in 1..n : els[i] = Ellipsis }
        IN  /\ (first > 1) <=> (firstButtons = {1})
            /\ (first <= 1) <=> (firstButtons = {})
            /\ (first > 2) <=> (1 \in firstButtons /\ 2 \in ellipses)
            /\ (last < pgTotalPages) <=> (lastButtons = {n})
            /\ (last >= pgTotalPages) <=> (lastButtons = {})
            /\ (last < pgTotalPages - 1)
                  <=> (n \in lastButtons /\ (n - 1) \in ellipses)
            /\ ellipses \subseteq {2, n - 1}
            /\ pgTotalPages <= 5 =>
                  (firstButtons = {} /\ lastButtons = {} /\ ellipses = {})

\* Page 4 of 12: the window 2..6 follows the page 1 button with no ellipsis
\* between them, and an ellipsis stands before the button of page 12.
C16_Witness ==
    /\ pgOutput # Null
    /\ pgTotalPages = 12
    /\ pgCurrentPage = 4
    /\ pgOutput.pageNumbers[1] = [kind |-> "first", page |-> 1]
    /\ pgOutput.pageNumbers[2].kind = "page"
    /\ pgOutput.pageNumbers[7] = Ellipsis
    /\ pgOutput.pageNumbers[8] = [kind |-> "last", page |-> 12]

\* C17: with currentPage in [1, totalPages], Previous at page 1 and Next at
\* page totalPages issue no page change, every page passed to onPageChange
\* lies in [1, totalPages], and currentPage stays in [1, totalPages].
C17_NavigationInRange ==
    [][(pgCurrentPage >= 1 /\ pgCurrentPage <= pgTotalPages) =>
          (/\ (pgClick' = "prev" /\ pgCurrentPage = 1) => pgEmitted' = <<>>
           /\ (pgClick' = "next" /\ pgCurrentPage = pgTotalPages) =>
                 pgEmitted' = <<>>
           /\ \A i \in 1..Len(pgEmitted') : pgEmitted'[i] \in 1..pgTotalPages
           /\ pgCurrentPage' \in 1..pgTotalPages)]_vars

\* Next has been pressed at the last of 12 pages and no page was passed to
\* onPageChange.
C17_Witness ==
    /\ pgTotalPages = 12
    /\ pgCurrentPage = 12
    /\ pgClick = "next"
    /\ pgEmitted = <<>>

\* C18: when totalPages <= 1 (0 included) the component returns null: no
\* Previous or Next button, no page button and no page info.
C18_NoOutputWithoutPages == pgTotalPages <= 1 => pgOutput = Null

\* Pagination has rendered with no page at all.
C18_Witness ==
    /\ pgTotalPages = 0
    /\ pgClick = "none"
    /\ pgOutput = Null

--------------------------------------------------------------------------
(* C20                                                                    *)

\* C20: in every state where loading is false and no error is set, the
\* list shown is the filter applied to the held records under the current
\* criteria: filteredCommits = applyFilters(commits, filters), also when
\* the filters were changed while a fetch was in flight.
C20_ShownListFollowsCurrentFilters ==
    (~loading /\ error = "null") =>
        filteredCommits = applyFilters(commits, filters, tz)

--------------------------------------------------------------------------
(* C21                                                                    *)

\* C21: the classifier the Changelog component applies while parsing the
\* fetched lines gives every message the category utils.detectCommitType
\* gives it: every record held has type = detectCommitType(message).
C21_ComponentClassifierIsUtils ==
    \A i \in 1..Len(commits) :
        commits[i].type = detectCommitType(commits[i].message)

--------------------------------------------------------------------------
(* C22                                                                    *)

\* C22: whenever loading is false, no error is set and totalPages > 1, the
\* pagination controls are rendered, also when the active filters match
\* none of the records of the current page.
C22_PaginationAvailable ==
    (~loading /\ error = "null" /\ totalPages > 1) => paginationRendered

--------------------------------------------------------------------------
(* C23                                                                    *)

\* C23: for every totalPages >= 2 and currentPage in [1, totalPages], the
\* page buttons rendered (first page button, window, last page button) have
\* strictly increasing numbers, all in [1, totalPages]; currentPage, 1 and
\* totalPages are among them; and the window has exactly 5 pages when
\* totalPages > 5.
C23_PageButtonsWellFormed ==
    (pgTotalPages >= 2 /\ pgCurrentPage >= 1 /\ pgCurrentPage <= pgTotalPages) =>
        /\ pgOutput # Null
        /\ LET buttons == SelectSeq(pgOutput.pageNumbers,
                                    LAMBDA el : el # Ellipsis)
               numbers == { buttons[i].page : i \in 1..Len(buttons) }
               window == SelectSeq(pgOutput.pageNumbers,
                                   LAMBDA el : el.kind = "page")
           IN  /\ \A i \in 1..(Len(buttons) - 1) :
                     buttons[i].page < buttons[i + 1].page
               /\ numbers \subseteq 1..pgTotalPages
               /\ {pgCurrentPage, 1, pgTotalPages} \subseteq numbers
               /\ pgTotalPages > 5 => Len(window) = 5

\* Page 10 of 12 has been reached by a press on a button of the window: the
\* window 8..12 ends with the last page, after the page 1 button and an
\* ellipsis.
C23_Witness ==
    /\ pgOutput # Null
    /\ pgTotalPages = 12
    /\ pgCurrentPage = 10
    /\ pgClick = "page"
    /\ Len(pgOutput.pageNumbers) = 7
    /\ pgOutput.pageNumbers[7].kind = "page"

==========================================================================
